---- MODULE Spec2Model ----
(***************************************************************************)
(* Model of fnss/adapters/ns2.py: the conversion of an FNSS topology into  *)
(* an ns-2 Tcl script (to_ns2), the stack validator (validate_ns2_stacks)  *)
(* and the Mako template (__TEMPLATE) that renders the script.             *)
(*                                                                         *)
(* The script is modelled as the sequence of its commands, one record per  *)
(* output line; comment lines and blank lines of the template are left     *)
(* out.  A Python mapping is a function whose DOMAIN is its key set; an    *)
(* insertion-ordered mapping that the template iterates (.items()) is a    *)
(* sequence of [k, v] records with distinct keys.                          *)
(***************************************************************************)
EXTENDS Integers, Sequences, FiniteSets, TLC

VARIABLES
    topology,      \* the topology argument (never mutated)
    stacks_arg,    \* the value the caller passed for stacks
    pc,            \* position inside to_ns2
    set_buffers,   \* local set_buffers
    set_delays,    \* local set_delays
    set_weights,   \* local set_weights
    stacks,        \* local stacks (becomes deploy_stacks)
    validated,     \* whether validate_ns2_stacks was called
    warnings,      \* the warn() calls so far, in order
    file_opened,   \* the output path has been opened for writing (truncated)
    file_open,     \* the file handle is currently open
    file_content,  \* the commands written to the output file
    rendered,      \* the value of template.render(...) once computed
    error          \* the exception that left to_ns2, or "none"

vars == <<topology, stacks_arg, pc, set_buffers, set_delays, set_weights,
          stacks, validated, warnings, file_opened, file_open, file_content,
          rendered, error>>

\* ------------------------------------------------------------------ bounds

MaxNodes == 2
MaxEdges == 2
MaxApps == 1

\* ------------------------------------------------------- helper operators

RECURSIVE Flatten(_)
Flatten(ss) == IF ss = <<>> THEN <<>> ELSE Head(ss) \o Flatten(Tail(ss))

\* The key set of an insertion-ordered mapping ('class' in props)
Keys(m) == { m[i].k : i \in DOMAIN m }

\* props['class'] on an insertion-ordered mapping that holds the key
Item(m, key) == m[CHOOSE i \in DOMAIN m : m[i].k = key].v

\* ------------------------------------------------------------ fnss.units

\* capacity_units: unit name -> bit/s (the entries that fit 32-bit products)
capacity_units == [u \in {"bps", "Kbps", "Mbps"} |->
                     CASE u = "bps" -> 1
                       [] u = "Kbps" -> 1000
                       [] u = "Mbps" -> 1000000]

\* time_units: unit name -> ms
time_units == [u \in {"ms", "s", "min"} |->
                 CASE u = "ms" -> 1
                   [] u = "s" -> 1000
                   [] u = "min" -> 60000]

\* The divisor of the capacity normalisation (bit/s -> Mb/s)
MbDivisor == 1000000

\* ------------------------------------------- fnss.netconfig.nodeconfig

None == [isNone |-> TRUE]

\* get_stack(topology, node): None, or the (name, props) pair of the node
get_stack(t, node) ==
    IF "stack" \notin DOMAIN t.node[node]
    THEN None
    ELSE [isNone |-> FALSE,
          name |-> t.node[node]["stack"].name,
          props |-> t.node[node]["stack"].props]

\* get_application_names(topology, node): the names, in listing order
get_application_names(t, node) ==
    IF "application" \notin DOMAIN t.node[node]
    THEN <<>>
    ELSE [i \in DOMAIN t.node[node]["application"] |->
             t.node[node]["application"][i].k]

\* get_application_properties(topology, node, name)
get_application_properties(t, node, name) ==
    Item(t.node[node]["application"], name)

\* topology.edge[u][v]: the attribute mapping of the edge; an undirected
\* graph answers both orientations with the one mapping of the edge
edge(t, u, v) ==
    LET i == CHOOSE j \in DOMAIN t.edges :
                 \/ t.edges[j].u = u /\ t.edges[j].v = v
                 \/ ~t.directed /\ t.edges[j].u = v /\ t.edges[j].v = u
    IN t.edges[i].data

\* ---------------------------------------------------- validate_ns2_stacks

\* Mutant: a node without a stack is accepted whatever its applications
RECURSIVE ValidateFromStackOptional(_, _)
ValidateFromStackOptional(t, i) ==
    IF i > Len(t.nodes) THEN TRUE
    ELSE LET node == t.nodes[i]
             applications == get_application_names(t, node)
             stack == get_stack(t, node)
         IN IF \E j \in DOMAIN applications :
                   "class" \notin Keys(get_application_properties(
                                           t, node, applications[j]))
            THEN FALSE
            ELSE IF stack.isNone
                 THEN ValidateFromStackOptional(t, i + 1)
                 ELSE IF "class" \notin Keys(stack.props) THEN FALSE
                      ELSE ValidateFromStackOptional(t, i + 1)

\* The body of the loop over the nodes, from the i-th node on
RECURSIVE ValidateFrom(_, _)
ValidateFrom(t, i) ==
    IF i > Len(t.nodes) THEN TRUE
    ELSE LET node == t.nodes[i]
             applications == get_application_names(t, node)
             stack == get_stack(t, node)
         IN IF \E j \in DOMAIN applications :
                   "class" \notin Keys(get_application_properties(
                                           t, node, applications[j]))
            THEN FALSE
            ELSE IF stack.isNone
                 THEN IF Len(applications) > 0 THEN FALSE
                      ELSE ValidateFrom(t, i + 1)
                 ELSE IF "class" \notin Keys(stack.props) THEN FALSE
                      ELSE ValidateFrom(t, i + 1)

validate_ns2_stacks(t) == ValidateFrom(t, 1)

\* -------------------------------------------------------------- __TEMPLATE

\* A line whose expression raises (a KeyError on a missing attribute)
Raise == [cmd |-> "KeyError"]

\* The first code block: capacity_norm and, if set_delays, delay_norm
Preamble(t, sd) ==
    IF \/ "capacity_unit" \notin DOMAIN t.graph
       \/ t.graph["capacity_unit"] \notin DOMAIN capacity_units
       \/ sd /\ "delay_unit" \notin DOMAIN t.graph
       \/ sd /\ "delay_unit" \in DOMAIN t.graph
             /\ t.graph["delay_unit"] \notin DOMAIN time_units
    THEN <<Raise>>
    ELSE << [cmd |-> "new-simulator"] >>

\* set n${str(node)} [$ns node], one per node
NodeSection(t) == [i \in DOMAIN t.nodes |-> [cmd |-> "node", node |-> t.nodes[i]]]

\* The delay field of a link line: the literal "0", or delay * delay_norm
DelayField(t, e, sd) ==
    IF ~sd THEN [literal |-> TRUE, ms |-> 0]
    ELSE [literal |-> FALSE,
          ms |-> edge(t, e.u, e.v)["delay"] * time_units[t.graph["delay_unit"]]]

\* The capacity field of a link line: capacity * capacity_norm, as a fraction
CapacityField(t, e) ==
    [num |-> edge(t, e.u, e.v)["capacity"] * capacity_units[t.graph["capacity_unit"]],
     den |-> MbDivisor]

\* One simplex-link or duplex-link line
LinkLine(t, e, sd) ==
    IF \/ sd /\ "delay" \notin DOMAIN edge(t, e.u, e.v)
       \/ "capacity" \notin DOMAIN edge(t, e.u, e.v)
    THEN Raise
    ELSE [cmd |-> IF t.directed THEN "simplex-link" ELSE "duplex-link",
          u |-> e.u, v |-> e.v,
          capacity |-> CapacityField(t, e),
          delay |-> DelayField(t, e, sd),
          qtype |-> "DropTail"]

\* Mutant: an undirected edge gets a link line in each direction
LinkSectionBothWays(t, sd) ==
    << [cmd |-> "set-qtype"] >>
    \o Flatten([i \in DOMAIN t.edges |->
                  IF t.directed THEN << LinkLine(t, t.edges[i], sd) >>
                  ELSE << LinkLine(t, t.edges[i], sd),
                          LinkLine(t, [u |-> t.edges[i].v, v |-> t.edges[i].u], sd) >>])

\* set qtype DropTail, then one link line per edge
LinkSection(t, sd) ==
    << [cmd |-> "set-qtype"] >> \o [i \in DOMAIN t.edges |-> LinkLine(t, t.edges[i], sd)]

\* $ns <cmd> $n<a> $n<b> <edge[a][b][attr]>
AttrLine(t, cmd, attr, a, b) ==
    IF attr \notin DOMAIN edge(t, a, b) THEN Raise
    ELSE [cmd |-> cmd, u |-> a, v |-> b, val |-> edge(t, a, b)[attr]]

\* The lines of one edge in the weight or buffer section
AttrLines(t, cmd, attr, e) ==
    IF t.directed
    THEN << AttrLine(t, cmd, attr, e.u, e.v) >>
    ELSE << AttrLine(t, cmd, attr, e.u, e.v), AttrLine(t, cmd, attr, e.v, e.u) >>

WeightSection(t, sw) ==
    IF sw THEN Flatten([i \in DOMAIN t.edges |-> AttrLines(t, "cost", "weight", t.edges[i])])
    ELSE <<>>

BufferSection(t, sb) ==
    IF sb THEN Flatten([i \in DOMAIN t.edges |-> AttrLines(t, "queue-limit", "buffer", t.edges[i])])
    ELSE <<>>

\* Mutant: 'class' is not skipped
PropLinesWithClass(name, props) ==
    [i \in DOMAIN props |-> [cmd |-> "set", obj |-> name, prop |-> props[i].k, val |-> props[i].v]]

\* $<name> set <prop> <val> for every property but 'class', in mapping order
PropLines(name, props) ==
    LET rest == SelectSeq(props, LAMBDA p : p.k # "class")
    IN [i \in DOMAIN rest |-> [cmd |-> "set", obj |-> name, prop |-> rest[i].k, val |-> rest[i].v]]

\* The lines of one application of a node
AppLines(t, node, stack_name, app_name) ==
    LET app_properties == get_application_properties(t, node, app_name)
    IN IF "class" \notin Keys(app_properties) THEN <<Raise>>
       ELSE << [cmd |-> "new", obj |-> app_name, class |-> Item(app_properties, "class")] >>
            \o PropLines(app_name, app_properties)
            \o << [cmd |-> "attach-app", obj |-> app_name, agent |-> stack_name] >>

\* The lines of one node in the deployment section
StackLines(t, node) ==
    LET stack == get_stack(t, node)
        names == get_application_names(t, node)
    IN IF stack.isNone THEN <<>>
       ELSE IF "class" \notin Keys(stack.props) THEN <<Raise>>
       ELSE << [cmd |-> "new", obj |-> stack.name, class |-> Item(stack.props, "class")] >>
            \o PropLines(stack.name, stack.props)
            \o << [cmd |-> "attach-agent", node |-> node, agent |-> stack.name] >>
            \o Flatten([j \in DOMAIN names |-> AppLines(t, node, stack.name, names[j])])

StackSection(t, ds) ==
    IF ds THEN Flatten([i \in DOMAIN t.nodes |-> StackLines(t, t.nodes[i])])
    ELSE <<>>

\* template.render(**variables): the lines of the script, in order
Render(t, ds, sd, sb, sw) ==
    IF Preamble(t, sd) = <<Raise>> THEN <<Raise>>
    ELSE Preamble(t, sd) \o NodeSection(t) \o LinkSection(t, sd)
         \o WeightSection(t, sw) \o BufferSection(t, sb) \o StackSection(t, ds)

\* render raises when the evaluation of any line raises
Raises(lines) == \E i \in DOMAIN lines : lines[i].cmd = "KeyError"

\* ------------------------------------------------------------ topologies

Absent == "<absent>"

\* A mapping from the given keys to the chosen values, without the absent ones
Mapping(choice) == [k \in { x \in DOMAIN choice : choice[x] # Absent } |-> choice[k]]

\* The graph attribute mappings the conversions are run on
Graphs ==
    { Mapping([capacity_unit |-> c, buffer_unit |-> b, delay_unit |-> d]) :
        c \in {Absent, "Mbps", "Kbps", "furlongs"},
        b \in {Absent, "packets", "bytes"},
        d \in {Absent, "s", "parsecs"} }

EdgeAttrs == {"capacity", "delay", "weight", "buffer"}

\* The attribute sets an edge may carry: all of them, all but one, or
\* 'capacity' alone
AttrProfiles == {EdgeAttrs, {"capacity"}} \cup { EdgeAttrs \ {a} : a \in EdgeAttrs }

\* The attribute values of edge (u, v), different from edge to edge
EdgeData(u, v, attrs) ==
    [a \in attrs |-> CASE a = "capacity" -> 10 * u + v
                       [] a = "delay" -> u * v - 2
                       [] a = "weight" -> 3 * u + v
                       [] a = "buffer" -> 100 * u + 10 * v]

\* The endpoint pairs a graph on nodes 1..n may hold (no self-loops)
Pairs(n, directed) ==
    { p \in (1..n) \X (1..n) : IF directed THEN p[1] # p[2] ELSE p[1] < p[2] }

\* edges_iter(): edges come in adjacency order, by source then target
RECURSIVE InOrder(_)
InOrder(ps) ==
    IF ps = {} THEN <<>>
    ELSE LET m == CHOOSE p \in ps : \A q \in ps :
                      p[1] < q[1] \/ (p[1] = q[1] /\ p[2] <= q[2])
         IN <<m>> \o InOrder(ps \ {m})

\* The edge lists on nodes 1..n with at most MaxEdges edges, of which at
\* most one lacks attributes
EdgeLists(n, directed) ==
    UNION { LET order == InOrder(ps)
            IN { [i \in DOMAIN order |->
                     [u |-> order[i][1], v |-> order[i][2],
                      data |-> EdgeData(order[i][1], order[i][2], prof[i])]] :
                 prof \in { f \in [DOMAIN order -> AttrProfiles] :
                              Cardinality({ i \in DOMAIN order : f[i] # EdgeAttrs }) <= 1 } } :
            ps \in { q \in SUBSET Pairs(n, directed) : Cardinality(q) <= MaxEdges } }

\* Property mappings of stacks and applications, with and without 'class'
StackProps ==
    { << [k |-> "window_", v |-> "20"], [k |-> "class", v |-> "Agent/TCP"],
         [k |-> "packetSize_", v |-> "500"] >>,
      << [k |-> "window_", v |-> "20"] >> }

AppProps ==
    { << [k |-> "rate_", v |-> "1Mb"], [k |-> "class", v |-> "Application/Traffic/CBR"] >>,
      << [k |-> "rate_", v |-> "1Mb"] >> }

\* The application mappings of node v: one to MaxApps applications
Applications(v) ==
    UNION { { [i \in 1..n |-> [k |-> <<"app", v, i>>, v |-> props[i]]] :
              props \in [1..n -> AppProps] } : n \in 1..MaxApps }

\* The attribute mappings of node v: with or without stack and applications
NodeData(v) ==
    { [x \in {} |-> Absent] }
    \cup { [x \in {"stack"} |-> [name |-> <<"agent", v>>, props |-> sp]] :
           sp \in StackProps }
    \cup { [x \in {"application"} |-> apps] : apps \in Applications(v) }
    \cup { [x \in {"stack", "application"} |->
              IF x = "stack" THEN [name |-> <<"agent", v>>, props |-> sp]
              ELSE apps] :
           sp \in StackProps, apps \in Applications(v) }

NoError == [type |-> "none", msg |-> ""]

\* Conversions of topologies that differ in their links and graph attributes
InitLinks ==
    \E directed \in BOOLEAN, graph \in Graphs :
    \E edges \in EdgeLists(MaxNodes, directed) :
        topology = [directed |-> directed,
                    graph |-> graph,
                    nodes |-> [i \in 1..MaxNodes |-> i],
                    edges |-> edges,
                    node |-> [v \in 1..MaxNodes |->
                                 IF v = 1
                                 THEN CHOOSE d \in NodeData(v) :
                                          /\ DOMAIN d = {"stack", "application"}
                                          /\ "class" \in Keys(d["stack"].props)
                                          /\ \A i \in DOMAIN d["application"] :
                                               "class" \in Keys(d["application"][i].v)
                                 ELSE [x \in {} |-> Absent]]]

\* Conversions of topologies that differ in their stacks and applications
InitStacks ==
    \E n \in 1..MaxNodes :
    \E node \in [1..n -> UNION { NodeData(v) : v \in 1..n }] :
        /\ \A v \in 1..n : node[v] \in NodeData(v)
        /\ topology = [directed |-> FALSE,
                       graph |-> [capacity_unit |-> "Mbps", buffer_unit |-> "packets",
                                  delay_unit |-> "s"],
                       nodes |-> [i \in 1..n |-> i],
                       edges |-> IF n < 2 THEN <<>>
                                 ELSE << [u |-> 1, v |-> 2,
                                          data |-> EdgeData(1, 2, EdgeAttrs)] >>,
                       node |-> node]

Init ==
    /\ InitLinks \/ InitStacks
    /\ stacks_arg \in BOOLEAN
    /\ stacks = stacks_arg
    /\ pc = "import"
    /\ set_buffers = FALSE
    /\ set_delays = FALSE
    /\ set_weights = FALSE
    /\ validated = FALSE
    /\ warnings = <<>>
    /\ file_opened = FALSE
    /\ file_open = FALSE
    /\ file_content = <<>>
    /\ rendered = <<>>
    /\ error = NoError

\* ------------------------------------------------------------------ to_ns2

\* Mutant: only the presence of 'capacity_unit' is checked
CapacityUnitPresent(t) == "capacity_unit" \in DOMAIN t.graph

\* Neither of the two capacity unit checks raises
CapacityUnitValid(t) ==
    /\ "capacity_unit" \in DOMAIN t.graph
    /\ t.graph["capacity_unit"] \in DOMAIN capacity_units

\* Mutant: any() in place of all()
AnyWeighted(t) ==
    \E i \in DOMAIN t.edges : "weight" \in DOMAIN edge(t, t.edges[i].u, t.edges[i].v)

\* all('weight' in topology.edge[u][v] for u, v in topology.edges_iter())
AllWeighted(t) ==
    \A i \in DOMAIN t.edges : "weight" \in DOMAIN edge(t, t.edges[i].u, t.edges[i].v)

\* Mutant: only the presence of 'delay_unit' is checked
MissingDelayUnit(t) == "delay_unit" \notin DOMAIN t.graph

\* not 'delay_unit' in topology.graph or not topology.graph['delay_unit'] in time_units
BadDelayUnit(t) ==
    \/ "delay_unit" \notin DOMAIN t.graph
    \/ t.graph["delay_unit"] \notin DOMAIN time_units

\* any('stack' in topology.node[v] for v in topology.nodes_iter())
AnyStack(t) == \E i \in DOMAIN t.nodes : "stack" \in DOMAIN t.node[t.nodes[i]]

\* Mutant: a failed validation warns but leaves stacks enabled
DeployStacksUnvalidated(t, requested) ==
    IF ~requested THEN FALSE
    ELSE IF ~AnyStack(t) THEN FALSE
    ELSE requested

\* The value of stacks after the if stacks: block
DeployStacks(t, requested) ==
    IF ~requested THEN FALSE
    ELSE IF ~validate_ns2_stacks(t) THEN FALSE
    ELSE IF ~AnyStack(t) THEN FALSE
    ELSE requested

BufferMissingWarning == "Missing buffer size unit attribute in the topology."
BufferUnitWarning == "The only supported unit is packets."
DelayWarning == "Missing or invalid delay unit attribute in the topology."
StackWarning == "Some application stacks cannot be parsed correctly."

\* raise: the exception leaves to_ns2; an open file is closed by the with block
RaiseError(type, msg) ==
    /\ pc' = "raised"
    /\ error' = [type |-> type, msg |-> msg]
    /\ file_open' = FALSE

\* from mako.template import Template succeeds; the flags get their defaults
\* and set_weights is computed over all edges
ImportMako ==
    /\ pc = "import"
    /\ pc' = "capacity"
    /\ set_buffers' = TRUE
    /\ set_delays' = TRUE
    /\ set_weights' = AllWeighted(topology)
    /\ UNCHANGED <<topology, stacks_arg, stacks, validated, warnings, file_opened,
                   file_open, file_content, rendered, error>>

\* mako is not installed
ImportFails ==
    /\ pc = "import"
    /\ RaiseError("ImportError", "Cannot import mako.template module.")
    /\ UNCHANGED <<topology, stacks_arg, set_buffers, set_delays, set_weights, stacks,
                   validated, warnings, file_opened, file_content, rendered>>

CapacityUnitMissing ==
    /\ pc = "capacity"
    /\ "capacity_unit" \notin DOMAIN topology.graph
    /\ RaiseError("ValueError", "The given topology does not have capacity data.")
    /\ UNCHANGED <<topology, stacks_arg, set_buffers, set_delays, set_weights, stacks,
                   validated, warnings, file_opened, file_content, rendered>>

CapacityUnitInvalid ==
    /\ pc = "capacity"
    /\ "capacity_unit" \in DOMAIN topology.graph
    /\ topology.graph["capacity_unit"] \notin DOMAIN capacity_units
    /\ RaiseError("ValueError", "The given topology does not have a valid capacity unit")
    /\ UNCHANGED <<topology, stacks_arg, set_buffers, set_delays, set_weights, stacks,
                   validated, warnings, file_opened, file_content, rendered>>

\* Mutant: an unsupported buffer unit is let through
CheckBufferUnitAnyUnit ==
    /\ pc = "capacity"
    /\ CapacityUnitValid(topology)
    /\ pc' = "delay"
    /\ IF "buffer_unit" \notin DOMAIN topology.graph
       THEN /\ warnings' = Append(warnings, BufferMissingWarning)
            /\ set_buffers' = FALSE
       ELSE UNCHANGED <<warnings, set_buffers>>
    /\ UNCHANGED <<topology, stacks_arg, set_delays, set_weights, stacks, validated,
                   file_opened, file_open, file_content, rendered, error>>

\* The buffer unit check that follows a valid capacity unit
CheckBufferUnit ==
    /\ pc = "capacity"
    /\ CapacityUnitValid(topology)
    /\ pc' = "delay"
    /\ IF "buffer_unit" \notin DOMAIN topology.graph
       THEN /\ warnings' = Append(warnings, BufferMissingWarning)
            /\ set_buffers' = FALSE
       ELSE IF ~(topology.graph["buffer_unit"] = "packets")
            THEN /\ warnings' = Append(warnings, BufferUnitWarning)
                 /\ set_buffers' = FALSE
            ELSE UNCHANGED <<warnings, set_buffers>>
    /\ UNCHANGED <<topology, stacks_arg, set_delays, set_weights, stacks, validated,
                   file_opened, file_open, file_content, rendered, error>>

CheckDelayUnit ==
    /\ pc = "delay"
    /\ pc' = "stacks"
    /\ IF BadDelayUnit(topology)
       THEN /\ warnings' = Append(warnings, DelayWarning)
            /\ set_delays' = FALSE
       ELSE UNCHANGED <<warnings, set_delays>>
    /\ UNCHANGED <<topology, stacks_arg, set_buffers, set_weights, stacks, validated,
                   file_opened, file_open, file_content, rendered, error>>

\* Mutant: the downgrade for a topology without stacks warns too
CheckStacksWarnsWithoutStacks ==
    /\ pc = "stacks"
    /\ pc' = "open"
    /\ IF stacks
       THEN /\ validated' = TRUE
            /\ warnings' = IF ~validate_ns2_stacks(topology) \/ ~AnyStack(topology)
                           THEN Append(warnings, StackWarning)
                           ELSE warnings
            /\ stacks' = DeployStacks(topology, stacks)
       ELSE UNCHANGED <<validated, warnings, stacks>>
    /\ UNCHANGED <<topology, stacks_arg, set_buffers, set_delays, set_weights,
                   file_opened, file_open, file_content, rendered, error>>

\* if stacks: validate, warn and disable; disable when no node has a stack
CheckStacks ==
    /\ pc = "stacks"
    /\ pc' = "open"
    /\ IF stacks
       THEN /\ validated' = TRUE
            /\ warnings' = IF ~validate_ns2_stacks(topology)
                           THEN Append(warnings, StackWarning)
                           ELSE warnings
            /\ stacks' = DeployStacks(topology, stacks)
       ELSE UNCHANGED <<validated, warnings, stacks>>
    /\ UNCHANGED <<topology, stacks_arg, set_buffers, set_delays, set_weights,
                   file_opened, file_open, file_content, rendered, error>>

\* with open(path, "w") as out: the file is created or truncated
OpenFile ==
    /\ pc = "open"
    /\ pc' = "render"
    /\ file_opened' = TRUE
    /\ file_open' = TRUE
    /\ file_content' = <<>>
    /\ UNCHANGED <<topology, stacks_arg, set_buffers, set_delays, set_weights, stacks,
                   validated, warnings, rendered, error>>

\* template.render(**variables) returns the script
RenderScript ==
    /\ pc = "render"
    /\ ~Raises(Render(topology, stacks, set_delays, set_buffers, set_weights))
    /\ rendered' = Render(topology, stacks, set_delays, set_buffers, set_weights)
    /\ pc' = "write"
    /\ UNCHANGED <<topology, stacks_arg, set_buffers, set_delays, set_weights, stacks,
                   validated, warnings, file_opened, file_open, file_content, error>>

\* Mutant: the lines rendered before the failing one reach the file
RenderRaisesStreaming ==
    /\ pc = "render"
    /\ Raises(Render(topology, stacks, set_delays, set_buffers, set_weights))
    /\ LET lines == Render(topology, stacks, set_delays, set_buffers, set_weights)
           first == CHOOSE i \in DOMAIN lines :
                        /\ lines[i].cmd = "KeyError"
                        /\ \A j \in 1..(i - 1) : lines[j].cmd # "KeyError"
       IN file_content' = SubSeq(lines, 1, first - 1)
    /\ pc' = "raised"
    /\ error' = [type |-> "KeyError", msg |-> "render"]
    /\ file_open' = FALSE
    /\ UNCHANGED <<topology, stacks_arg, set_buffers, set_delays, set_weights, stacks,
                   validated, warnings, file_opened, rendered>>

\* template.render(**variables) raises on a missing attribute
RenderRaises ==
    /\ pc = "render"
    /\ Raises(Render(topology, stacks, set_delays, set_buffers, set_weights))
    /\ RaiseError("KeyError", "render")
    /\ UNCHANGED <<topology, stacks_arg, set_buffers, set_delays, set_weights, stacks,
                   validated, warnings, file_opened, file_content, rendered>>

\* out.write(...), then the with block closes the file
WriteFile ==
    /\ pc = "write"
    /\ file_content' = file_content \o rendered
    /\ file_open' = FALSE
    /\ pc' = "done"
    /\ UNCHANGED <<topology, stacks_arg, set_buffers, set_delays, set_weights, stacks,
                   validated, warnings, file_opened, rendered, error>>

Next ==
    \/ ImportMako
    \/ ImportFails
    \/ CapacityUnitMissing
    \/ CapacityUnitInvalid
    \/ CheckBufferUnit
    \/ CheckDelayUnit
    \/ CheckStacks
    \/ OpenFile
    \/ RenderScript
    \/ RenderRaises
    \/ WriteFile

Spec == Init /\ [][Next]_vars

\* ------------------------------------------------------------ properties

\* The lines of the output file with one of the given commands, in order
Lines(cmds) == SelectSeq(file_content, LAMBDA c : c.cmd \in cmds)

BadCapacityUnit ==
    \/ "capacity_unit" \notin DOMAIN topology.graph
    \/ topology.graph["capacity_unit"] \notin DOMAIN capacity_units

\* C1: with 'capacity_unit' missing or unrecognized the conversion never gets
\* past the capacity check and never opens or writes the output file,
\* whatever the other attributes and the stacks argument are; once mako is
\* imported the check is bound to raise, and what it raises is a ValueError.
C1_CapacityUnitRequired ==
    BadCapacityUnit =>
        /\ ~file_opened /\ ~file_open /\ file_content = <<>>
        /\ pc \in {"import", "capacity", "raised"}
        /\ pc = "capacity" => /\ ENABLED (CapacityUnitMissing \/ CapacityUnitInvalid)
                              /\ ~ENABLED CheckBufferUnit
        /\ (pc = "raised" /\ error.type # "ImportError") => error.type = "ValueError"

\* C1 witness: an unrecognized unit raised ValueError with stacks requested,
\* a supported buffer unit and a valid delay unit
C1_Witness ==
    /\ pc = "raised" /\ error.type = "ValueError"
    /\ "capacity_unit" \in DOMAIN topology.graph
    /\ topology.graph["capacity_unit"] = "furlongs"
    /\ "buffer_unit" \in DOMAIN topology.graph
    /\ "delay_unit" \in DOMAIN topology.graph
    /\ stacks_arg
    /\ ~file_opened

\* C2: the output file holds script text only once the conversion is done,
\* and then it holds the whole script; a run that fails, also during
\* rendering after the validation passed, leaves the file without any text
\* (opened at most) and closed.
C2_AllOrNothing ==
    /\ pc # "done" => file_content = <<>>
    /\ pc = "raised" => ~file_open
    /\ pc = "done" =>
          /\ file_opened /\ ~file_open /\ error = NoError
          /\ file_content = Render(topology, stacks, set_delays, set_buffers, set_weights)
          /\ \A i \in DOMAIN file_content : file_content[i].cmd # "KeyError"
          /\ Len(Lines({"node"})) = Len(topology.nodes)
          /\ Len(Lines({"simplex-link", "duplex-link"})) = Len(topology.edges)

\* C2 witness: rendering failed on an edge without 'capacity' after the
\* validation passed; the file was opened and holds nothing
C2_Witness ==
    /\ pc = "raised" /\ error.type = "KeyError"
    /\ \E i \in DOMAIN topology.edges : "capacity" \notin DOMAIN topology.edges[i].data
    /\ file_opened /\ file_content = <<>>

\* C3: the script holds exactly one link command per edge, in edge order:
\* simplex-link u v for a directed topology, duplex-link u v for an
\* undirected one.
C3_OneLinkPerEdge ==
    pc = "done" =>
        LET links == Lines({"simplex-link", "duplex-link"})
        IN /\ Len(links) = Len(topology.edges)
           /\ \A i \in DOMAIN links :
                 /\ links[i].u = topology.edges[i].u
                 /\ links[i].v = topology.edges[i].v
                 /\ links[i].cmd = IF topology.directed THEN "simplex-link"
                                   ELSE "duplex-link"

\* C3 witness: a finished conversion of an undirected topology with an edge
C3_Witness ==
    /\ pc = "done" /\ ~topology.directed /\ Len(topology.edges) >= 1
    /\ Len(Lines({"duplex-link"})) = Len(topology.edges)

EveryEdgeWeighted ==
    \A i \in DOMAIN topology.edges : "weight" \in DOMAIN topology.edges[i].data

\* C4: weight rendering is enabled exactly when every edge carries 'weight';
\* then a directed topology gets one cost command per edge and an undirected
\* one two per edge, (u,v) then (v,u), with the edge's weight; otherwise the
\* script holds no cost command, and no warning is about weights.
C4_WeightsAllOrNone ==
    /\ (pc \notin {"import"} /\ error.type # "ImportError") =>
           set_weights = EveryEdgeWeighted
    /\ \A i \in DOMAIN warnings :
           warnings[i] \in {BufferMissingWarning, BufferUnitWarning, DelayWarning,
                            StackWarning}
    /\ pc = "done" =>
        LET costs == Lines({"cost"})
            E == topology.edges
        IN IF ~EveryEdgeWeighted THEN costs = <<>>
           ELSE IF topology.directed
           THEN /\ Len(costs) = Len(E)
                /\ \A i \in DOMAIN E :
                      costs[i] = [cmd |-> "cost", u |-> E[i].u, v |-> E[i].v,
                                  val |-> E[i].data["weight"]]
           ELSE /\ Len(costs) = 2 * Len(E)
                /\ \A i \in DOMAIN E :
                      /\ costs[2 * i - 1] = [cmd |-> "cost", u |-> E[i].u, v |-> E[i].v,
                                             val |-> E[i].data["weight"]]
                      /\ costs[2 * i] = [cmd |-> "cost", u |-> E[i].v, v |-> E[i].u,
                                         val |-> E[i].data["weight"]]

\* C4 witness: a finished conversion of two edges of which one has no weight
C4_Witness ==
    /\ pc = "done" /\ Len(topology.edges) = 2
    /\ "weight" \in DOMAIN topology.edges[1].data
    /\ "weight" \notin DOMAIN topology.edges[2].data
    /\ Lines({"cost"}) = <<>>

Warned(w) == \E i \in DOMAIN warnings : warnings[i] = w

Lacking(attr) == \E i \in DOMAIN topology.edges : attr \notin DOMAIN topology.edges[i].data

BufferOff ==
    \/ "buffer_unit" \notin DOMAIN topology.graph
    \/ topology.graph["buffer_unit"] # "packets"

\* The topology with buffer_unit = "packets" and nothing else changed
WithPackets ==
    [topology EXCEPT !.graph =
        [k \in DOMAIN topology.graph \cup {"buffer_unit"} |->
            IF k = "buffer_unit" THEN "packets" ELSE topology.graph[k]]]

\* The sections of the script other than the buffer section
OtherSections(t, ds, sd, sw) ==
    Preamble(t, sd) \o NodeSection(t) \o LinkSection(t, sd)
    \o WeightSection(t, sw) \o StackSection(t, ds)

\* C5: with 'buffer_unit' absent or other than "packets" buffer rendering is
\* off and the script holds no queue-limit command, whatever the edges'
\* 'buffer' attributes; a rendering failure is then never about buffers, and
\* the finished script is the node, link, weight and stack sections of the
\* same topology with buffer_unit = "packets".
C5_NoBuffersWithoutPackets ==
    BufferOff =>
        /\ pc \in {"delay", "stacks", "open", "render", "write", "done"} => ~set_buffers
        /\ Lines({"queue-limit"}) = <<>>
        /\ \A i \in DOMAIN rendered : rendered[i].cmd # "queue-limit"
        /\ (pc = "raised" /\ error.type = "KeyError") =>
               Lacking("capacity") \/ (set_delays /\ Lacking("delay"))
        /\ pc = "done" =>
               file_content = OtherSections(WithPackets,
                                            DeployStacks(WithPackets, stacks_arg),
                                            ~BadDelayUnit(WithPackets),
                                            AllWeighted(WithPackets))

\* C5 witness: a finished conversion with buffer_unit = "bytes", stacks
\* requested and an edge that has a 'buffer'
C5_Witness ==
    /\ pc = "done" /\ stacks_arg
    /\ "buffer_unit" \in DOMAIN topology.graph
    /\ topology.graph["buffer_unit"] = "bytes"
    /\ \E i \in DOMAIN topology.edges : "buffer" \in DOMAIN topology.edges[i].data
    /\ Lines({"queue-limit"}) = <<>>

DelayOff ==
    \/ "delay_unit" \notin DOMAIN topology.graph
    \/ topology.graph["delay_unit"] \notin DOMAIN time_units

Declared(t, v) ==
    IF "application" \in DOMAIN t.node[v] THEN t.node[v]["application"] ELSE <<>>

\* Every application has a 'class', a node with applications has a stack,
\* and every stack has a 'class'
StacksValid(t) ==
    \A n \in DOMAIN t.nodes :
        LET v == t.nodes[n]
        IN /\ \A a \in DOMAIN Declared(t, v) : "class" \in Keys(Declared(t, v)[a].v)
           /\ Len(Declared(t, v)) > 0 => "stack" \in DOMAIN t.node[v]
           /\ "stack" \in DOMAIN t.node[v] => "class" \in Keys(t.node[v]["stack"].props)

\* C7: validate_ns2_stacks returns True exactly when on every node every
\* application has a 'class', applications come with a stack, and the stack
\* has a 'class'; the conversion warns about stacks exactly when it
\* consulted the validator and got False.
C7_ValidatorIff ==
    /\ validate_ns2_stacks(topology) = StacksValid(topology)
    /\ validated => (Warned(StackWarning) <=> ~StacksValid(topology))
    /\ ~validated => ~Warned(StackWarning)

\* C7 witness: the validator rejected a topology whose only defect is one
\* application without 'class' on a node with a well-formed stack
C7_Witness ==
    /\ validated /\ ~validate_ns2_stacks(topology) /\ Warned(StackWarning)
    /\ \E n \in DOMAIN topology.nodes :
          LET v == topology.nodes[n]
          IN /\ "stack" \in DOMAIN topology.node[v]
             /\ "class" \in Keys(topology.node[v]["stack"].props)
             /\ Len(Declared(topology, v)) = 1
             /\ "class" \notin Keys(Declared(topology, v)[1].v)
    /\ \A n \in DOMAIN topology.nodes :
          "stack" \in DOMAIN topology.node[topology.nodes[n]]
              => "class" \in Keys(topology.node[topology.nodes[n]]["stack"].props)

\* C8 (as stated): in every finished conversion a disabled buffer, delay or
\* requested stack feature comes with a warning, also when the validator
\* returned True and no node declares a stack.
C8_EveryDowngradeWarns ==
    pc = "done" =>
        /\ ~set_buffers => Warned(BufferMissingWarning) \/ Warned(BufferUnitWarning)
        /\ ~set_delays => Warned(DelayWarning)
        /\ (stacks_arg /\ ~stacks) => Warned(StackWarning)

\* C8 (amended): in every finished conversion a disabled buffer or delay
\* feature comes with a warning, and so does a requested stack deployment
\* that the validator rejected; when the validator returned True and no
\* node declares a stack, stack deployment is disabled without any warning.
C8_DowngradeWarnsButNoStacksSilent ==
    pc = "done" =>
        /\ ~set_buffers => Warned(BufferMissingWarning) \/ Warned(BufferUnitWarning)
        /\ ~set_delays => Warned(DelayWarning)
        /\ (stacks_arg /\ ~StacksValid(topology)) => ~stacks /\ Warned(StackWarning)
        /\ (stacks_arg /\ StacksValid(topology)
              /\ \A n \in DOMAIN topology.nodes :
                     "stack" \notin DOMAIN topology.node[topology.nodes[n]])
           => ~stacks /\ ~Warned(StackWarning)

\* C8 witness: stacks were requested, the validator accepted a topology
\* without any stack, and the conversion finished with deployment disabled
C8_Witness ==
    /\ pc = "done" /\ stacks_arg /\ validated /\ StacksValid(topology)
    /\ \A n \in DOMAIN topology.nodes :
           "stack" \notin DOMAIN topology.node[topology.nodes[n]]
    /\ ~stacks /\ set_buffers /\ set_delays /\ warnings = <<>>

DeployCommands == {"new", "set", "attach-agent", "attach-app"}

\* One property-set command per property other than 'class', in order
RECURSIVE SetCommands(_, _)
SetCommands(name, props) ==
    IF props = <<>> THEN <<>>
    ELSE IF Head(props).k = "class" THEN SetCommands(name, Tail(props))
    ELSE << [cmd |-> "set", obj |-> name, prop |-> Head(props).k, val |-> Head(props).v] >>
         \o SetCommands(name, Tail(props))

\* Instantiation, property sets and attachment of each application, in order
RECURSIVE AppCommands(_, _)
AppCommands(apps, agent) ==
    IF apps = <<>> THEN <<>>
    ELSE << [cmd |-> "new", obj |-> Head(apps).k, class |-> Item(Head(apps).v, "class")] >>
         \o SetCommands(Head(apps).k, Head(apps).v)
         \o << [cmd |-> "attach-app", obj |-> Head(apps).k, agent |-> agent] >>
         \o AppCommands(Tail(apps), agent)

\* The deployment commands of the nodes from the n-th on
RECURSIVE Deployment(_, _)
Deployment(t, n) ==
    IF n > Len(t.nodes) THEN <<>>
    ELSE LET v == t.nodes[n]
         IN (IF "stack" \notin DOMAIN t.node[v] THEN <<>>
             ELSE LET st == t.node[v]["stack"]
                  IN << [cmd |-> "new", obj |-> st.name, class |-> Item(st.props, "class")] >>
                     \o SetCommands(st.name, st.props)
                     \o << [cmd |-> "attach-agent", node |-> v, agent |-> st.name] >>
                     \o AppCommands(Declared(t, v), st.name))
            \o Deployment(t, n + 1)

C10_ValidatorSufficient ==
    /\ (pc \in {"open", "render", "write", "done"} /\ stacks) =>
          /\ stacks_arg /\ validated /\ ~Warned(StackWarning)
          /\ \E n \in DOMAIN topology.nodes :
                 "stack" \in DOMAIN topology.node[topology.nodes[n]]
          /\ \A n \in DOMAIN topology.nodes :
                LET v == topology.nodes[n]
                IN /\ "stack" \in DOMAIN topology.node[v] =>
                          "class" \in Keys(topology.node[v]["stack"].props)
                   /\ \A a \in DOMAIN Declared(topology, v) :
                          /\ "class" \in Keys(Declared(topology, v)[a].v)
                          /\ "stack" \in DOMAIN topology.node[v]
          /\ ~Raises(StackSection(topology, stacks))
    /\ (pc = "raised" /\ error.type = "KeyError") =>
          /\ ~Raises(StackSection(topology, stacks))
          /\ Lacking("capacity") \/ (set_delays /\ Lacking("delay"))
               \/ (set_buffers /\ Lacking("buffer"))
    /\ ~stacks_arg =>
          /\ ~validated /\ ~stacks /\ ~Warned(StackWarning)
          /\ Lines(DeployCommands) = <<>>
          /\ \A i \in DOMAIN rendered : rendered[i].cmd \notin DeployCommands

\* C10 witness: a finished conversion that deployed the stacks of two nodes
C10_Witness ==
    /\ pc = "done" /\ stacks /\ validated
    /\ Len(Lines({"attach-agent"})) >= 2
    /\ Len(Lines({"attach-app"})) >= 1

====
